---- MODULE Spec2Model ----
(***************************************************************************)
(* Conduit MCP server: per-request client resolution (ConduitApp.get_client)*)
(* and the request cache / retry decorators of the enhanced HTTP client     *)
(* (RequestCache, retry_request, cached_request,                            *)
(* EnhancedPhabricatorClient.request).                                      *)
(***************************************************************************)
EXTENDS Integers, Sequences, FiniteSets, TLC

VARIABLES
    \* ---- ConduitApp (src/src/conduit.py) ----
    use_sse,        \* ConduitApp.use_sse, fixed at construction
    config_token,   \* ConduitApp.config.token: None or a 32-character token
    self_client,    \* ConduitApp._client: 0 for None, else the identity of a client
    clients,        \* every PhabricatorClient constructed so far; identity = index
    log,            \* history: one record per get_client call, in call order
    \* ---- request cache and retry (src/conduit/client/unified.py) ----
    rc_cache,       \* _request_cache._cache: key -> <<value, timestamp>>
    rc_ttl,         \* _request_cache.ttl
    now,            \* time.time()
    dec,            \* arguments of the retry_request decorator on the call
    status,         \* "idle", "running", "returned" or "raised"
    cur,            \* the call in progress: client and arguments
    attempt,        \* retry_request.wrapper: loop variable attempt
    current_delay,  \* retry_request.wrapper: current_delay
    result,         \* what the finished call returned or raised
    trace,          \* history: attempts and sleeps of the call, in order
    last,           \* history: what the latest pass through cached_request did
    stored_by,      \* history: key -> client whose call stored the entry
    ncalls,         \* history: underlying invocations made by the call
    nreq,           \* history: number of calls begun
    \* ---- threads sharing _request_cache ----
    threads,        \* thread -> position and locals inside cached_request.wrapper
    \* ---- RequestCache._generate_key on its own ----
    key_in,         \* the two requests whose keys are derived
    key_out,        \* their keys, once derived
    \* ---- functions of the tool layer applied to one input ----
    arg,            \* the input the function is called with
    ret             \* <<>> before the call, then <<its outcome>>

session_vars == <<use_sse, config_token, self_client, clients, log>>

cache_vars == <<rc_cache, rc_ttl, now, dec, status, cur, attempt, current_delay,
                result, trace, last, stored_by, ncalls, nreq>>

aux_vars == <<threads, key_in, key_out, arg, ret>>

vars == <<session_vars, cache_vars, aux_vars>>

-----------------------------------------------------------------------------
(* Python values                                                           *)

\* Python values are tagged tuples: None, a str, an int, or a dict given as
\* the sequence of its <<key, value>> items in insertion order.
None == <<"none">>
PyStr(s) == <<"str", s>>
PyInt(n) == <<"int", n>>
PyDict(items) == <<"dict", items>>

IsNone(v) == v[1] = "none"
IsStr(v) == v[1] = "str"
IsInt(v) == v[1] = "int"
IsDict(v) == v[1] = "dict"

\* Python truthiness: None, "", 0 and {} are falsy.
Truthy(v) ==
    CASE IsNone(v) -> FALSE
      [] IsStr(v)  -> v[2] # ""
      [] IsInt(v)  -> v[2] # 0
      [] IsDict(v) -> v[2] # <<>>
      [] OTHER     -> TRUE

-----------------------------------------------------------------------------
(* Bounds and inputs                                                       *)

\* Number of get_client calls in one run.
MaxRequests == 3

\* Required token length.
TokenLength == 32

TokA == "aaaaaaaaaaaaaaaaaaaaaaaaaaaaaaaa"
TokB == "bbbbbbbbbbbbbbbbbbbbbbbbbbbbbbbb"
TokC == "cccccccccccccccccccccccccccccccc"
TokLong == "ddddddddddddddddddddddddddddddddd"
TokShort == "short_token"

\* Values of headers.get("x-phabricator-token") on inbound requests.
Headers == {None, PyStr(""), PyStr(TokShort), PyStr(TokLong), PyStr(TokA), PyStr(TokB)}

\* Values of the user-agent header of a request.
UserAgents == {"approved-client/1.0", "malicious-client/1.0"}

\* PhabricatorConfig.token after __init__: absent, or a token that passed the
\* length check of the constructor.
ConfigTokens == {None, PyStr(TokC)}

-----------------------------------------------------------------------------
(* ConduitApp.get_client                                                   *)

NoError == "ok"
ErrHeaderLength == "PHABRICATOR_TOKEN from HTTP header must be exactly 32 characters long"
ErrMustProvide == "Must provide X-PHABRICATOR-TOKEN."
ErrRequired == "PHABRICATOR_TOKEN is required for stdio mode"

Return(c) == [kind |-> "return", error |-> NoError, token |-> clients[c].api_token]

\* Mutant: the client is built from the rejected token and memoized before
\* the error is raised.
Raise_after_memoizing(e) == [kind |-> "construct", error |-> e, token |-> TokShort]

Raise(e) == [kind |-> "raise", error |-> e, token |-> ""]
Construct(t) == [kind |-> "construct", error |-> NoError, token |-> t]

\* Mutant: the memoized client is ignored, every call resolves the token again.
get_client_result_no_memo(memo, sse, cfg, http_token) ==
    IF Truthy(http_token)
    THEN IF Len(http_token[2]) # TokenLength
         THEN Raise(ErrHeaderLength)
         ELSE Construct(http_token[2])
    ELSE IF sse
         THEN Raise(ErrMustProvide)
         ELSE IF ~Truthy(cfg) THEN Raise(ErrRequired) ELSE Construct(cfg[2])

\* Mutant: the configured token is preferred over the header token.
get_client_result_config_first(memo, sse, cfg, http_token) ==
    IF memo # 0
    THEN Return(memo)
    ELSE IF Truthy(cfg) /\ ~sse
         THEN Construct(cfg[2])
         ELSE IF Truthy(http_token)
              THEN IF Len(http_token[2]) # TokenLength
                   THEN Raise(ErrHeaderLength)
                   ELSE Construct(http_token[2])
              ELSE IF sse THEN Raise(ErrMustProvide) ELSE Raise(ErrRequired)

\* What one get_client call does, given self._client (memo), self.use_sse,
\* self.config.token and the request's x-phabricator-token header.
get_client_result(memo, sse, cfg, http_token) ==
    IF memo # 0
    THEN Return(memo)
    ELSE IF Truthy(http_token)
         THEN IF Len(http_token[2]) # TokenLength
              THEN Raise(ErrHeaderLength)
              ELSE Construct(http_token[2])
         ELSE IF sse
              THEN Raise(ErrMustProvide)
              ELSE IF ~Truthy(cfg) THEN Raise(ErrRequired) ELSE Construct(cfg[2])

\* PhabricatorClient(url, token, ...): a new object, bound to the token.
PhabricatorClient(t) == [api_token |-> t]

get_client(user_agent, http_token) ==
    /\ Len(log) < MaxRequests
    /\ LET r == get_client_result(self_client, use_sse, config_token, http_token)
           new == Len(clients) + 1
       IN /\ clients' = IF r.kind = "construct"
                        THEN Append(clients, PhabricatorClient(r.token))
                        ELSE clients
          /\ self_client' = IF r.kind = "construct" THEN new ELSE self_client
          /\ log' = Append(log,
                 [user_agent  |-> user_agent,
                  http_token  |-> http_token,
                  error       |-> r.error,
                  client      |-> CASE r.kind = "construct" -> new
                                    [] r.kind = "return"    -> self_client
                                    [] OTHER                -> 0,
                  constructed |-> r.kind = "construct"])
    /\ UNCHANGED <<use_sse, config_token>>
    /\ UNCHANGED cache_vars
    /\ UNCHANGED aux_vars

-----------------------------------------------------------------------------
(* RequestCache (src/conduit/client/unified.py)                            *)

\* Keys of the mappings used in the model, in Python's sorted() order. A key
\* is a str, or an int written as its decimal digits (the keys in IntKeys).
KeyOrder == <<"1", "2", "a", "b", "data", "headers", "json", "params", "timeout">>

IntKeys == {"1", "2"}

\* The items of a dict ordered by key, as json.dumps(sort_keys=True) emits them.
SortedItems(items) ==
    LET At(i) == {j \in 1..Len(items) : items[j][1] = KeyOrder[i]}
        F[i \in 0..Len(KeyOrder)] ==
            IF i = 0 THEN <<>>
            ELSE IF At(i) = {} THEN F[i - 1]
                 ELSE Append(F[i - 1], items[CHOOSE j \in At(i) : TRUE])
    IN F[Len(KeyOrder)]

RECURSIVE json_dumps(_)
RECURSIVE json_dumps_items(_)

\* json.dumps(value, sort_keys=True, default=str)
json_dumps(v) ==
    CASE IsNone(v) -> "null"
      [] IsStr(v)  -> "\"" \o v[2] \o "\""
      [] IsInt(v)  -> ToString(v[2])
      [] IsDict(v) -> "{" \o json_dumps_items(SortedItems(v[2])) \o "}"

json_dumps_items(items) ==
    IF items = <<>> THEN ""
    ELSE "\"" \o items[1][1] \o "\": " \o json_dumps(items[1][2])
         \o (IF Len(items) > 1 THEN ", " ELSE "")
         \o json_dumps_items(Tail(items))

RECURSIVE sort_raises(_)

\* Whether json.dumps(value, sort_keys=True) raises TypeError: sorting the
\* keys of a dict, at any depth, that has both int and str keys.
sort_raises(v) ==
    IsDict(v) /\
        \/ /\ \E j \in 1..Len(v[2]) : v[2][j][1] \in IntKeys
           /\ \E j \in 1..Len(v[2]) : v[2][j][1] \notin IntKeys
        \/ \E j \in 1..Len(v[2]) : sort_raises(v[2][j][2])

RECURSIVE repr(_)
RECURSIVE repr_items(_)

\* repr(value); a dict is written in insertion order.
repr(v) ==
    CASE IsNone(v) -> "None"
      [] IsStr(v)  -> "'" \o v[2] \o "'"
      [] IsInt(v)  -> ToString(v[2])
      [] IsDict(v) -> "{" \o repr_items(v[2]) \o "}"

repr_items(items) ==
    IF items = <<>> THEN ""
    ELSE (IF items[1][1] \in IntKeys THEN items[1][1]
          ELSE "'" \o items[1][1] \o "'")
         \o ": " \o repr(items[1][2])
         \o (IF Len(items) > 1 THEN ", " ELSE "")
         \o repr_items(Tail(items))

\* str(value)
str(v) ==
    CASE IsNone(v) -> "None"
      [] IsStr(v)  -> v[2]
      [] IsInt(v)  -> ToString(v[2])
      [] IsDict(v) -> repr(v)

\* RequestCache._canonicalize
canonicalize(value) ==
    IF IsNone(value) THEN ""
    ELSE IF IsDict(value)
         THEN IF sort_raises(value) THEN str(value) ELSE json_dumps(value)
    ELSE str(value)

\* str.upper() on the method names used in the model.
upper(s) ==
    CASE s = "get"  -> "GET"
      [] s = "Get"  -> "GET"
      [] s = "post" -> "POST"
      [] OTHER      -> s

\* hashlib.md5(...).hexdigest(): an injective digest of the key string.
md5_hexdigest(key_data) == "md5(" \o key_data \o ")"

\* "|".join(key_parts)
key_data(method, url, params, data, json_payload, extra) ==
    upper(method) \o "|" \o url \o "|" \o canonicalize(params) \o "|"
        \o canonicalize(data) \o "|" \o canonicalize(json_payload) \o "|"
        \o canonicalize(extra)

\* RequestCache._generate_key
generate_key(method, url, params, data, json_payload, extra) ==
    md5_hexdigest(key_data(method, url, params, data, json_payload, extra))

\* A dict without one key (del d[key]).
Without(d, key) == [k \in DOMAIN d \ {key} |-> d[k]]

\* A dict with d[key] = entry.
With(d, key, entry) ==
    [k \in DOMAIN d \cup {key} |-> IF k = key THEN entry ELSE d[k]]

\* Mutant: an entry is still served when exactly ttl seconds have elapsed.
RequestCache_get_inclusive(cache, ttl, key, t) ==
    IF key \in DOMAIN cache
    THEN IF t - cache[key][2] <= ttl
         THEN [value |-> cache[key][1], cache |-> cache]
         ELSE [value |-> None, cache |-> Without(cache, key)]
    ELSE [value |-> None, cache |-> cache]

\* Mutant: a hit renews the timestamp of the entry (sliding expiry).
RequestCache_get_sliding(cache, ttl, key, t) ==
    IF key \in DOMAIN cache
    THEN IF t - cache[key][2] < ttl
         THEN [value |-> cache[key][1],
               cache |-> With(cache, key, <<cache[key][1], t>>)]
         ELSE [value |-> None, cache |-> Without(cache, key)]
    ELSE [value |-> None, cache |-> cache]

\* Mutant: an expired entry is reported as a miss but left in the map.
RequestCache_get_keep_expired(cache, ttl, key, t) ==
    IF key \in DOMAIN cache /\ t - cache[key][2] < ttl
    THEN [value |-> cache[key][1], cache |-> cache]
    ELSE [value |-> None, cache |-> cache]

\* RequestCache.get at time t: the value returned and the map afterwards.
RequestCache_get(cache, ttl, key, t) ==
    IF key \in DOMAIN cache
    THEN IF t - cache[key][2] < ttl
         THEN [value |-> cache[key][1], cache |-> cache]
         ELSE [value |-> None, cache |-> Without(cache, key)]
    ELSE [value |-> None, cache |-> cache]

\* Mutant: set does not store a None value.
RequestCache_set_skips_none(cache, key, value, t) ==
    IF IsNone(value) THEN cache ELSE With(cache, key, <<value, t>>)

\* Mutant: set replaces the whole map by the one new entry.
RequestCache_set_alone(cache, key, value, t) == With(<<>>, key, <<value, t>>)

\* RequestCache.set at time t: the map afterwards.
RequestCache_set(cache, key, value, t) == With(cache, key, <<value, t>>)

-----------------------------------------------------------------------------
(* cached_request (src/conduit/client/unified.py)                          *)

\* Outcomes of a call: a returned value or a raised exception.
Ret(v) == [kind |-> "return", value |-> v, exc |-> [type |-> "", id |-> 0]]
Exc(type, id) == [kind |-> "raise", value |-> None, exc |-> [type |-> type, id |-> id]]

\* kwargs.get(name)
kwargs_get(kwargs, name) ==
    LET At == {j \in 1..Len(kwargs) : kwargs[j][1] = name}
    IN IF At = {} THEN None ELSE kwargs[CHOOSE j \in At : TRUE][2]

\* The method and url resolved from positional and keyword arguments
\* (args here are the positional arguments after the instance).
resolve_method(call) ==
    LET method == kwargs_get(call.kwargs, "method")
    IN IF Len(call.args) >= 1 /\ IsNone(method) THEN call.args[1] ELSE method

resolve_url(call) ==
    LET url == kwargs_get(call.kwargs, "url")
    IN IF Len(call.args) >= 2 /\ IsNone(url) THEN call.args[2] ELSE url

\* The keyword arguments other than method, url, params, data and json.
extra_kwargs(kwargs) ==
    PyDict(SelectSeq(kwargs,
        LAMBDA item : item[1] \notin {"method", "url", "params", "data", "json"}))

\* Mutant: the wrapper always executes without caching.
cache_off_always(config, method, url) == TRUE

\* Mutant: the wrapper ignores config.enable_cache.
cache_off_ignores_flag(config, method, url) == IsNone(method) \/ IsNone(url)

\* Whether the wrapper executes without caching (first early return).
cache_off(config, method, url) ==
    ~config.enable_cache \/ IsNone(method) \/ IsNone(url)

\* Mutant: the GET-only gate is missing, every method is cached.
not_get_never(method) == FALSE

\* Only GET requests are cached (second early return).
not_get(method) == upper(str(method)) # "GET"

\* One pass through cached_request.wrapper at time t for a call whose
\* underlying function, if invoked, takes dur and ends with outcome o.
cached_request(config, call, cache, ttl, t, o, dur) ==
    LET method == resolve_method(call)
        url == resolve_url(call)
        direct == [gate |-> "bypass", key |-> "", invoked |-> 1, outcome |-> o,
                   cache |-> cache, ttl |-> ttl, t_end |-> t + dur]
    IN IF cache_off(config, method, url) THEN direct
       ELSE IF not_get(method) THEN direct
       ELSE LET cache_key == generate_key(upper(str(method)), url[2],
                                 kwargs_get(call.kwargs, "params"),
                                 kwargs_get(call.kwargs, "data"),
                                 kwargs_get(call.kwargs, "json"),
                                 extra_kwargs(call.kwargs))
                got == RequestCache_get(cache, config.cache_ttl, cache_key, t)
            IN IF ~IsNone(got.value)
               THEN [gate |-> "hit", key |-> cache_key, invoked |-> 0,
                     outcome |-> Ret(got.value), cache |-> got.cache,
                     ttl |-> config.cache_ttl, t_end |-> t]
               ELSE [gate |-> "miss", key |-> cache_key, invoked |-> 1,
                     outcome |-> o,
                     cache |-> IF o.kind = "return"
                               THEN RequestCache_set(got.cache, cache_key, o.value, t + dur)
                               ELSE got.cache,
                     ttl |-> config.cache_ttl, t_end |-> t + dur]

-----------------------------------------------------------------------------
(* retry_request (src/conduit/client/unified.py)                           *)

\* The exception classes caught by retry_request.
TransientTypes == {"TimeoutException", "NetworkError", "HTTPStatusError"}

\* Whether func returned, raised an exception the except clause catches, or
\* raised another one.
outcome_class(outcome) ==
    IF outcome.kind = "return" THEN "return"
    ELSE IF outcome.exc.type \in TransientTypes THEN "transient" ELSE "other"

\* Mutant: the loop makes one attempt fewer (range(max_retries)).
retry_step_one_short(max_retries, att, outcome) ==
    IF outcome.kind = "return" THEN "return"
    ELSE IF outcome.exc.type \in TransientTypes
         THEN IF att + 1 < max_retries THEN "sleep" ELSE "raise"
         ELSE "raise"

\* Mutant: the loop goes on after an attempt that returned.
retry_step_ignores_return(max_retries, att, outcome) ==
    IF att < max_retries
    THEN IF outcome.kind = "raise" /\ outcome.exc.type \notin TransientTypes
         THEN "raise" ELSE "sleep"
    ELSE IF outcome.kind = "return" THEN "return" ELSE "raise"

\* Mutant: the except clause catches every exception.
retry_step_catch_all(max_retries, att, outcome) ==
    IF outcome.kind = "return" THEN "return"
    ELSE IF att < max_retries THEN "sleep" ELSE "raise"

\* What the loop body does with the outcome of func on iteration attempt.
retry_step(max_retries, att, outcome) ==
    IF outcome.kind = "return" THEN "return"
    ELSE IF outcome.exc.type \in TransientTypes
         THEN IF att < max_retries THEN "sleep" ELSE "raise"
         ELSE "raise"

\* Mutant: the delay grows by addition instead of multiplication.
next_delay_additive(delay, retry_backoff) == delay + retry_backoff

\* current_delay *= retry_backoff
next_delay(delay, retry_backoff) == delay * retry_backoff

-----------------------------------------------------------------------------
(* Inputs of the request path                                              *)

\* Last instant at which a call may begin or the clock may tick.
MaxTime == 2

\* Number of calls through cached_request in one run (SpecCache).
MaxCalls == 2

\* Number of request() calls in one run (Spec, SpecRetry).
MaxRequestCalls == 2

\* Largest max_retries argument drawn for the retry_request decorator.
MaxRetriesArg == 3

\* RequestCache.__init__ default ttl.
DefaultTtl == 300

\* Durations of one underlying HTTP call.
Durations == {0, 1}

\* The decorator on EnhancedPhabricatorClient.request:
\* @retry_request(max_retries=3, retry_delay=1.0, retry_backoff=2.0)
RequestDecorator == [max_retries |-> 3, retry_delay |-> 1, retry_backoff |-> 2]

\* retry_request(max_retries, retry_delay, retry_backoff) decorators.
Decorators == [max_retries : 0..MaxRetriesArg, retry_delay : {1, 2},
               retry_backoff : {1, 2}]

\* The enhanced clients of the process: api_token and ClientConfig.
EnhancedClients == <<
    [api_token |-> TokA, enable_cache |-> TRUE,  cache_ttl |-> 2,
     max_retries |-> 3, retry_delay |-> 1, retry_backoff |-> 2],
    [api_token |-> TokB, enable_cache |-> TRUE,  cache_ttl |-> 1,
     max_retries |-> 1, retry_delay |-> 2, retry_backoff |-> 1],
    [api_token |-> TokA, enable_cache |-> FALSE, cache_ttl |-> 2,
     max_retries |-> 0, retry_delay |-> 1, retry_backoff |-> 2] >>

ClientIds == 1..Len(EnhancedClients)

Url1 == "https://example.com/api/a"
Url2 == "https://example.com/api/b"

GetUrl1 == [args |-> <<PyStr("GET"), PyStr(Url1)>>, kwargs |-> <<>>]
LowerGetUrl1 == [args |-> <<PyStr("get"), PyStr(Url1)>>, kwargs |-> <<>>]
PostUrl1 == [args |-> <<PyStr("POST"), PyStr(Url1)>>, kwargs |-> <<>>]
LowerPostUrl1 == [args |-> <<PyStr("post"), PyStr(Url1)>>, kwargs |-> <<>>]
GetUrl2 == [args |-> <<PyStr("GET"), PyStr(Url2)>>, kwargs |-> <<>>]
NoMethodUrl1 == [args |-> <<None, PyStr(Url1)>>, kwargs |-> <<>>]
GetNoUrl == [args |-> <<PyStr("GET"), None>>, kwargs |-> <<>>]

\* client.request(*args, **kwargs) calls made by the tool layer: <<client, call>>.
Requests == { <<1, GetUrl1>>, <<2, LowerGetUrl1>>, <<3, GetUrl1>>,
              <<1, PostUrl1>>, <<2, LowerPostUrl1>>,
              <<1, GetUrl2>>, <<1, NoMethodUrl1>>, <<1, GetNoUrl>> }

\* The request() calls of the composed path: <<client, call>>.
ToolRequests == { <<1, GetUrl1>>, <<2, LowerGetUrl1>>, <<3, GetUrl1>>,
                  <<1, PostUrl1>> }

\* Values of response.json().
ResponseValues == {None,
                   PyDict(<< <<"result", PyInt(1)>> >>),
                   PyDict(<< <<"result", PyInt(2)>> >>)}

\* Exceptions of the underlying call that retry_request does not catch.
OtherTypes == {"JSONDecodeError"}

\* Outcomes of the n-th underlying HTTP call of a request.
Outcomes(n) == {Ret(v) : v \in ResponseValues}
                   \cup {Exc(t, n) : t \in TransientTypes \cup OtherTypes}

\* Outcomes of the function under cached_request alone, which treats every
\* exception alike: a value, or raise_for_status() raising.
CacheOutcomes == {Ret(v) : v \in ResponseValues} \cup {Exc("HTTPStatusError", 1)}

NoCall == [client |-> 0, call |-> [args |-> <<>>, kwargs |-> <<>>]]
NoLast == [gate |-> "none", key |-> "", invoked |-> 0, outcome |-> Ret(None),
           at |-> 0, t_end |-> 0, entry |-> <<>>, ttl |-> 0]

\* Number of operations the threads begin in one run (SpecThreads).
MaxThreadOps == 3

\* Number of GETs of one URL in one run (SpecExpiry).
MaxLookups == 3

\* Responses to the repeated GET, and its failure.
LookupOutcomes == {Ret(PyDict(<< <<"result", PyInt(1)>> >>)),
                   Ret(PyDict(<< <<"result", PyInt(2)>> >>)),
                   Exc("HTTPStatusError", 1)}

\* The threads of the host that call into the shared cache.
ThreadIds == {1, 2}

\* Outcomes of the underlying call made by a thread.
ThreadOutcomes == {Ret(PyDict(<< <<"result", PyInt(1)>> >>)),
                   Exc("HTTPStatusError", 1)}

\* A thread outside cached_request.wrapper.
IdleThread == [pc |-> "idle", client |-> 0, o |-> Ret(None), entry |-> <<>>,
               judged |-> <<>>, res |-> <<>>]

\* No request pair drawn for key derivation.
NoKeyIn == <<>>

-----------------------------------------------------------------------------
(* Actions of the request path                                             *)

\* The record of the finished call is dropped once the process moves on.
Forget ==
    /\ status' = "idle"
    /\ cur' = NoCall
    /\ attempt' = 0
    /\ current_delay' = 0
    /\ result' = Ret(None)
    /\ trace' = <<>>
    /\ last' = NoLast
    /\ ncalls' = 0

\* What one pass through cached_request.wrapper leaves behind; before is the
\* number of underlying invocations the call had made before the pass.
CachedPass(c, w, before) ==
    /\ rc_cache' = w.cache
    /\ rc_ttl' = w.ttl
    /\ stored_by' = [k \in DOMAIN w.cache |->
                        IF w.gate = "miss" /\ w.outcome.kind = "return" /\ k = w.key
                        THEN c ELSE stored_by[k]]
    /\ ncalls' = before + w.invoked
    /\ last' = [gate |-> w.gate, key |-> w.key, invoked |-> w.invoked,
                outcome |-> w.outcome, at |-> now, t_end |-> w.t_end,
                entry |-> IF w.key \in DOMAIN rc_cache
                          THEN <<rc_cache[w.key]>> ELSE <<>>,
                ttl |-> w.ttl]

\* A call of a function decorated with cached_request alone, in a run of at
\* most bound calls.
cached_call_within(bound, c, call, o, dur) ==
    /\ status # "running"
    /\ nreq < bound
    /\ now <= MaxTime
    /\ LET w == cached_request(EnhancedClients[c], call, rc_cache, rc_ttl, now, o, dur)
       IN /\ CachedPass(c, w, 0)
          /\ now' = w.t_end
          /\ status' = IF w.outcome.kind = "return" THEN "returned" ELSE "raised"
          /\ result' = w.outcome
    /\ cur' = [client |-> c, call |-> call]
    /\ nreq' = nreq + 1
    /\ UNCHANGED <<dec, attempt, current_delay, trace>>
    /\ UNCHANGED session_vars
    /\ UNCHANGED aux_vars

cached_call(c, call, o, dur) == cached_call_within(MaxCalls, c, call, o, dur)

\* A GET of Url1 through cached_request by a client with caching enabled.
cached_get(c, o) == cached_call_within(MaxLookups, c, GetUrl1, o, 0)

\* A call enters retry_request.wrapper.
request_begin(c, call) ==
    /\ status # "running"
    /\ nreq < MaxRequestCalls
    /\ now <= MaxTime
    /\ status' = "running"
    /\ cur' = [client |-> c, call |-> call]
    /\ attempt' = 0
    /\ current_delay' = dec.retry_delay
    /\ result' = Ret(None)
    /\ trace' = <<>>
    /\ last' = NoLast
    /\ ncalls' = 0
    /\ nreq' = nreq + 1
    /\ UNCHANGED <<rc_cache, rc_ttl, now, dec, stored_by>>
    /\ UNCHANGED session_vars
    /\ UNCHANGED aux_vars

\* One iteration of the retry loop: func (the cached wrapper around the HTTP
\* call) runs; then the loop returns, sleeps and goes on, or raises.
request_attempt(o, dur) ==
    /\ status = "running"
    /\ LET c == cur.client
           w == cached_request(EnhancedClients[c], cur.call, rc_cache, rc_ttl,
                               now, o, dur)
           step == retry_step(dec.max_retries, attempt, w.outcome)
       IN /\ CachedPass(c, w, ncalls)
          /\ IF step = "sleep"
             THEN /\ now' = w.t_end + current_delay
                  /\ current_delay' = next_delay(current_delay, dec.retry_backoff)
                  /\ attempt' = attempt + 1
                  /\ trace' = trace \o << [ev |-> "call", res |-> outcome_class(w.outcome), d |-> 0],
                                          [ev |-> "sleep", res |-> "", d |-> current_delay] >>
                  /\ UNCHANGED <<status, result>>
             ELSE /\ now' = w.t_end
                  /\ status' = IF step = "return" THEN "returned" ELSE "raised"
                  /\ result' = w.outcome
                  /\ trace' = Append(trace, [ev |-> "call", res |-> outcome_class(w.outcome), d |-> 0])
                  /\ UNCHANGED <<current_delay, attempt>>
    /\ UNCHANGED <<dec, cur, nreq>>
    /\ UNCHANGED session_vars
    /\ UNCHANGED aux_vars

\* Time passes between calls.
tick ==
    /\ status # "running"
    /\ now < MaxTime
    /\ now' = now + 1
    /\ Forget
    /\ UNCHANGED <<rc_cache, rc_ttl, dec, stored_by, nreq>>
    /\ UNCHANGED session_vars
    /\ UNCHANGED aux_vars

\* EnhancedPhabricatorClient.clear_cache
clear_cache(c) ==
    /\ status # "running"
    /\ rc_cache # <<>>
    /\ rc_cache' = <<>>
    /\ stored_by' = <<>>
    /\ Forget
    /\ UNCHANGED <<rc_ttl, now, dec, nreq>>
    /\ UNCHANGED session_vars
    /\ UNCHANGED aux_vars

-----------------------------------------------------------------------------
(* RequestCache._generate_key on drawn arguments                           *)

DictAB == PyDict(<< <<"a", PyInt(1)>>, <<"b", PyInt(2)>> >>)
DictBA == PyDict(<< <<"b", PyInt(2)>>, <<"a", PyInt(1)>> >>)

\* Values passed as params, data or json.
KeyValues ==
    { None, PyStr(""), PyInt(5), PyStr("5"), PyStr("a"), PyStr("a|b"),
      DictAB, DictBA,
      PyDict(<< <<"a", PyInt(2)>>, <<"b", PyInt(2)>> >>),
      PyDict(<< <<"a", DictAB>> >>), PyDict(<< <<"a", DictBA>> >>),
      PyDict(<< <<"1", PyStr("x")>>, <<"2", PyStr("y")>> >>),
      PyDict(<< <<"2", PyStr("y")>>, <<"1", PyStr("x")>> >>),
      PyDict(<< <<"1", PyStr("x")>>, <<"a", PyStr("y")>> >>),
      PyDict(<< <<"a", PyStr("y")>>, <<"1", PyStr("x")>> >>) }

\* Remaining keyword arguments collected by the wrapper.
KeyExtras ==
    { PyDict(<<>>),
      PyDict(<< <<"timeout", PyInt(5)>> >>),
      PyDict(<< <<"timeout", PyStr("5")>> >>),
      PyDict(<< <<"headers", DictAB>>, <<"timeout", PyInt(5)>> >>),
      PyDict(<< <<"timeout", PyInt(5)>>, <<"headers", DictBA>> >>) }

BaseKeyRequest ==
    [method |-> "GET", url |-> Url1, params |-> None, data |-> None,
     json_payload |-> None, extra |-> PyDict(<<>>)]

\* The argument tuples of _generate_key that are drawn.
KeyRequests ==
    {[BaseKeyRequest EXCEPT !.method = m] : m \in {"GET", "get", "Get", "POST", "post"}}
        \cup {[BaseKeyRequest EXCEPT !.url = u] : u \in {Url1, Url2}}
        \cup {[BaseKeyRequest EXCEPT !.params = v] : v \in KeyValues}
        \cup {[BaseKeyRequest EXCEPT !.data = v] : v \in KeyValues}
        \cup {[BaseKeyRequest EXCEPT !.json_payload = v] : v \in KeyValues}
        \cup {[BaseKeyRequest EXCEPT !.extra = v] : v \in KeyExtras}
        \cup {[BaseKeyRequest EXCEPT !.params = PyStr("a"), !.data = PyStr("b")]}

\* _request_cache._generate_key(...) on one argument tuple.
key_of(r) ==
    generate_key(r.method, r.url, r.params, r.data, r.json_payload, r.extra)

\* The keys of the two drawn requests are derived.
derive_keys ==
    /\ key_in # NoKeyIn
    /\ key_out = <<>>
    /\ key_out' = <<key_of(key_in[1]), key_of(key_in[2])>>
    /\ UNCHANGED <<key_in, threads, arg, ret>>
    /\ UNCHANGED cache_vars
    /\ UNCHANGED session_vars

\* The ClientConfig of a client constructed just now with the arguments of
\* test_enhanced_client; __init__ does not touch _request_cache.
NewClientConfig ==
    [api_token |-> TokC, enable_cache |-> TRUE, cache_ttl |-> 600,
     max_retries |-> 5, retry_delay |-> 2, retry_backoff |-> 2]

\* EnhancedPhabricatorClient.get_stats on a client with the given config.
get_stats(config) ==
    [config |-> [max_retries |-> config.max_retries,
                 enable_cache |-> config.enable_cache,
                 cache_ttl |-> config.cache_ttl],
     cache_size |-> Cardinality(DOMAIN rc_cache)]

-----------------------------------------------------------------------------
(* Threads inside cached_request.wrapper                                   *)

\* The key of the GET that every thread makes.
ThreadKey == generate_key("GET", Url1, None, None, None, PyDict(<<>>))

\* The frame of a step of thread t that leaves the thread at th.
ThreadStep(t, th) ==
    /\ threads' = [threads EXCEPT ![t] = th]
    /\ UNCHANGED <<now, dec, status, cur, attempt, current_delay, result,
                   trace, last, stored_by, ncalls>>
    /\ UNCHANGED <<key_in, key_out, arg, ret>>
    /\ UNCHANGED session_vars

KeyError == Exc("KeyError", 0)

\* Thread t enters the wrapper for a GET by client c whose underlying call,
\* if invoked, ends with outcome o; the key has been derived.
th_request(t, c, o) ==
    /\ threads[t].pc \in {"idle", "done"}
    /\ nreq < MaxThreadOps
    /\ nreq' = nreq + 1
    /\ ThreadStep(t, [IdleThread EXCEPT !.pc = "ttl", !.client = c, !.o = o])
    /\ UNCHANGED <<rc_cache, rc_ttl>>

\* _request_cache.ttl = cache_ttl
th_set_ttl(t) ==
    /\ threads[t].pc = "ttl"
    /\ rc_ttl' = EnhancedClients[threads[t].client].cache_ttl
    /\ ThreadStep(t, [threads[t] EXCEPT !.pc = "contains"])
    /\ UNCHANGED <<rc_cache, nreq>>

\* RequestCache.get: if key in self._cache
th_contains(t) ==
    /\ threads[t].pc = "contains"
    /\ ThreadStep(t, [threads[t] EXCEPT
           !.pc = IF ThreadKey \in DOMAIN rc_cache THEN "read" ELSE "call"])
    /\ UNCHANGED <<rc_cache, rc_ttl, nreq>>

\* RequestCache.get: cached_data, timestamp = self._cache[key]
th_read(t) ==
    /\ threads[t].pc = "read"
    /\ ThreadStep(t, IF ThreadKey \in DOMAIN rc_cache
                     THEN [threads[t] EXCEPT !.pc = "compare",
                                             !.entry = <<rc_cache[ThreadKey]>>]
                     ELSE [threads[t] EXCEPT !.pc = "done", !.res = <<KeyError>>])
    /\ UNCHANGED <<rc_cache, rc_ttl, nreq>>

\* RequestCache.get: if time.time() - timestamp < self.ttl, and the test
\* of the returned value in the wrapper.
th_compare(t) ==
    /\ threads[t].pc = "compare"
    /\ LET entry == threads[t].entry[1]
           age == now - entry[2]
           valid == age < rc_ttl
           judged == <<[age |-> age, ttl |-> rc_ttl, valid |-> valid]>>
       IN ThreadStep(t,
              IF ~valid THEN [threads[t] EXCEPT !.pc = "del", !.judged = judged]
              ELSE IF ~IsNone(entry[1])
                   THEN [threads[t] EXCEPT !.pc = "done", !.judged = judged,
                                           !.res = <<Ret(entry[1])>>]
                   ELSE [threads[t] EXCEPT !.pc = "call", !.judged = judged])
    /\ UNCHANGED <<rc_cache, rc_ttl, nreq>>

\* RequestCache.get: del self._cache[key]
th_del(t) ==
    /\ threads[t].pc = "del"
    /\ IF ThreadKey \in DOMAIN rc_cache
       THEN /\ rc_cache' = Without(rc_cache, ThreadKey)
            /\ ThreadStep(t, [threads[t] EXCEPT !.pc = "call"])
       ELSE /\ rc_cache' = rc_cache
            /\ ThreadStep(t, [threads[t] EXCEPT !.pc = "done", !.res = <<KeyError>>])
    /\ UNCHANGED <<rc_ttl, nreq>>

\* result = func(*args, **kwargs)
th_call(t) ==
    /\ threads[t].pc = "call"
    /\ ThreadStep(t, IF threads[t].o.kind = "return"
                     THEN [threads[t] EXCEPT !.pc = "store"]
                     ELSE [threads[t] EXCEPT !.pc = "done", !.res = <<threads[t].o>>])
    /\ UNCHANGED <<rc_cache, rc_ttl, nreq>>

\* _request_cache.set(cache_key, result); return result
th_store(t) ==
    /\ threads[t].pc = "store"
    /\ rc_cache' = RequestCache_set(rc_cache, ThreadKey, threads[t].o.value, now)
    /\ ThreadStep(t, [threads[t] EXCEPT !.pc = "done", !.res = <<threads[t].o>>])
    /\ UNCHANGED <<rc_ttl, nreq>>

\* A thread calls clear_cache: _request_cache._cache.clear()
th_clear(t) ==
    /\ threads[t].pc \in {"idle", "done"}
    /\ rc_cache # <<>>
    /\ nreq < MaxThreadOps
    /\ nreq' = nreq + 1
    /\ rc_cache' = <<>>
    /\ ThreadStep(t, [IdleThread EXCEPT !.pc = "done"])
    /\ UNCHANGED rc_ttl

-----------------------------------------------------------------------------
(* BasePhabricatorClient._make_request (src/src/client/base.py)            *)

\* dict.get(name, default) on the items of a dict.
dict_get(items, name, default) ==
    LET At == {j \in 1..Len(items) : items[j][1] = name}
    IN IF At = {} THEN default ELSE items[CHOOSE j \in At : TRUE][2]

\* raise PhabricatorAPIError(message, error_code, error_info)
PhabricatorAPIError(message, error_code, error_info) ==
    [kind |-> "raise", value |-> None,
     exc |-> [type |-> "PhabricatorAPIError", message |-> message,
              error_code |-> error_code, error_info |-> error_info]]

\* return value
Returned(value) ==
    [kind |-> "return", value |-> value,
     exc |-> [type |-> "", message |-> "", error_code |-> None, error_info |-> None]]

\* Mutant: the error is raised with its message only.
payload_outcome_message_only(data) ==
    IF Truthy(dict_get(data[2], "error_code", None))
    THEN PhabricatorAPIError(
             "API Error: " \o str(dict_get(data[2], "error_info", PyStr("Unknown error"))),
             None, None)
    ELSE Returned(dict_get(data[2], "result", PyDict(<<>>)))

\* What _make_request does with the decoded payload (lines 79-86).
payload_outcome(data) ==
    IF Truthy(dict_get(data[2], "error_code", None))
    THEN PhabricatorAPIError(
             "API Error: " \o str(dict_get(data[2], "error_info", PyStr("Unknown error"))),
             dict_get(data[2], "error_code", None),
             dict_get(data[2], "error_info", None))
    ELSE Returned(dict_get(data[2], "result", PyDict(<<>>)))

\* process_api_response (src/src/utils/responses.py)
process_api_response(response) ==
    IF Truthy(dict_get(response[2], "error_code", None))
    THEN PhabricatorAPIError(
             "API Error: " \o str(dict_get(response[2], "error_info", PyStr("Unknown error"))),
             dict_get(response[2], "error_code", None),
             dict_get(response[2], "error_info", None))
    ELSE Returned(dict_get(response[2], "result", PyDict(<<>>)))

\* _make_request given what self.client.post and response.json() produce:
\* its outcome and the number of HTTP requests it sent.
make_request(reply) ==
    [outcome |->
        CASE reply.kind = "http_error" ->
                 PhabricatorAPIError("Network error: " \o reply.text, None, None)
          [] reply.kind = "bad_json" ->
                 PhabricatorAPIError("Invalid JSON response: " \o reply.text, None, None)
          [] reply.kind = "json" -> payload_outcome(reply.data),
     posts |-> 1]

\* The items of an optional field of a payload.
Field(name, values) == {<<>>} \cup {<< <<name, v>> >> : v \in values}

\* Decoded payloads of the remote API.
Payloads ==
    { PyDict(a \o b \o c) :
        a \in Field("error_code", {None, PyStr(""), PyStr("ERR-CONDUIT-CORE"),
                                   PyStr("ERR-INVALID-AUTH"), PyStr("ERR-CUSTOM")}),
        b \in Field("error_info", {None, PyStr("Session key is not present.")}),
        c \in Field("result", {None, PyDict(<<>>), PyDict(<< <<"a", PyInt(1)>> >>)}) }

\* What the HTTP exchange of one _make_request produces.
HttpReplies ==
    {[kind |-> "json", data |-> d, text |-> ""] : d \in Payloads}
        \cup {[kind |-> "http_error", data |-> None, text |-> "timed out"],
              [kind |-> "bad_json", data |-> None, text |-> "Expecting value"]}

\* The frame of a call of a function of the tool layer.
ToolFrame ==
    /\ UNCHANGED <<arg, threads, key_in, key_out>>
    /\ UNCHANGED cache_vars
    /\ UNCHANGED session_vars

\* client._make_request(method, params)
make_request_call ==
    /\ arg \in HttpReplies
    /\ ret = <<>>
    /\ ret' = <<make_request(arg)>>
    /\ ToolFrame

-----------------------------------------------------------------------------
(* handle_api_errors (src/conduit/tools/handlers.py)                       *)

\* Python True and False.
PyBool(b) == <<"bool", b>>

\* The values of the ErrorCode enum.
ErrorCode == {"NETWORK_ERROR", "AUTH_ERROR", "VALIDATION_ERROR",
              "RATE_LIMIT_ERROR", "NOT_FOUND", "UNKNOWN_ERROR"}

\* raise of an exception that is not a PhabricatorAPIError
Raised(type, message) ==
    [kind |-> "raise", value |-> None,
     exc |-> [type |-> type, message |-> message,
              error_code |-> None, error_info |-> None]]

\* str(error): the message; a KeyError shows the repr of its key.
exception_str(exc) ==
    IF exc.type = "KeyError" THEN "'" \o exc.message \o "'" ELSE exc.message

\* Mutant: the remote code is passed on without the enum lookup.
ErrorCodeOf_unchecked(value) == value[2]

\* try: ErrorCode(value) / except ValueError: ErrorCode.UNKNOWN_ERROR
ErrorCodeOf(value) ==
    IF IsStr(value) /\ value[2] \in ErrorCode THEN value[2] ELSE "UNKNOWN_ERROR"

\* suggestions.get(error_code, default)
suggestion_for(error_code) ==
    CASE error_code = "NETWORK_ERROR" ->
             "Check your network connection and verify the Phabricator server is accessible"
      [] error_code = "AUTH_ERROR" ->
             "Verify your PHABRICATOR_TOKEN environment variable or check token validity"
      [] error_code = "VALIDATION_ERROR" ->
             "Provide valid parameters according to the API documentation"
      [] error_code = "RATE_LIMIT_ERROR" ->
             "Wait a few minutes before making additional requests"
      [] error_code = "NOT_FOUND" ->
             "Verify the resource identifier and check if it exists"
      [] OTHER -> "An unexpected error occurred. Please check the logs for details."

\* _get_error_details
get_error_details(exc) ==
    LET error_code ==
            IF exc.type = "PhabricatorAPIError"
            THEN IF Truthy(exc.error_code) THEN ErrorCodeOf(exc.error_code)
                 ELSE "UNKNOWN_ERROR"
            ELSE IF exc.type \in {"ConnectionError", "TimeoutError"} THEN "NETWORK_ERROR"
            ELSE IF exc.type \in {"ValueError", "KeyError"} THEN "VALIDATION_ERROR"
            ELSE "UNKNOWN_ERROR"
    IN [error_code |-> error_code, error |-> exception_str(exc),
        suggestion |-> suggestion_for(error_code)]

\* "name" in a dict
has_key(items, name) == \E j \in 1..Len(items) : items[j][1] = name

\* handle_api_errors.wrapper given the outcome of func.
handle_api_errors(o) ==
    IF o.kind = "return"
    THEN IF IsDict(o.value) /\ has_key(o.value[2], "success")
         THEN Returned(o.value)
         ELSE Returned(PyDict(<< <<"success", PyBool(TRUE)>>, <<"result", o.value>> >>))
    ELSE LET error_details == get_error_details(o.exc)
         IN IF o.exc.type = "PhabricatorAPIError"
            THEN Returned(PyDict(
                     << <<"success", PyBool(FALSE)>>,
                        <<"error", PyStr(error_details.error)>>,
                        <<"error_code", PyStr(error_details.error_code)>>,
                        <<"suggestion", PyStr(error_details.suggestion)>> >>
                     \o (IF Truthy(o.exc.error_info)
                         THEN << <<"error_info", o.exc.error_info>> >> ELSE <<>>)))
            ELSE Returned(PyDict(
                     << <<"success", PyBool(FALSE)>>,
                        <<"error", PyStr("Parameter validation failed: "
                                         \o error_details.error)>>,
                        <<"error_code", PyStr(error_details.error_code)>>,
                        <<"suggestion", PyStr(error_details.suggestion)>> >>))

\* Outcomes of the wrapped function.
FuncOutcomes ==
    {Returned(v) : v \in {None, PyStr("ok"), PyInt(0), PyDict(<<>>),
                           PyDict(<< <<"data", PyStr("success")>> >>),
                           PyDict(<< <<"success", PyBool(TRUE)>>, <<"data", PyInt(1)>> >>),
                           PyDict(<< <<"success", PyBool(FALSE)>>,
                                     <<"error", PyStr("no such task")>> >>)}}
        \cup {PhabricatorAPIError(m, c, i) :
                 m \in {"API Error: failed", ""},
                 c \in {None, PyStr("")} \cup {PyStr(e) : e \in ErrorCode}
                        \cup {PyStr("ERR-CONDUIT-CORE"), PyStr("ERR-INVALID-AUTH")},
                 i \in {None, PyStr(""), PyStr("Session key is not present.")}}
        \cup {Raised(t, m) :
                 t \in {"ConnectionError", "TimeoutError", "ValueError", "KeyError",
                        "RuntimeError"},
                 m \in {"Test error", ""}}

\* A call of a function decorated with handle_api_errors.
handle_api_errors_call ==
    /\ arg \in FuncOutcomes
    /\ ret = <<>>
    /\ ret' = <<handle_api_errors(arg)>>
    /\ ToolFrame

-----------------------------------------------------------------------------
(* _apply_smart_pagination (src/conduit/tools/pagination.py)               *)

\* Limit used when the caller passes none.
DefaultLimit == 100

\* Largest short list and largest small limit drawn (SpecPagination).
MaxItems == 3

\* The list [1, 2, ..., n].
ListOfLength(n) == [j \in 1..n |-> PyInt(j)]

\* data[:stop]: a negative stop counts from the end, and both ends clamp.
slice_to(data, stop) ==
    LET n == Len(data)
        last_index == IF stop < 0 THEN (IF n + stop < 0 THEN 0 ELSE n + stop)
                      ELSE IF stop > n THEN n ELSE stop
    IN SubSeq(data, 1, last_index)

\* _apply_smart_pagination(data, limit); limit is None or an int.
apply_smart_pagination(data, limit_arg) ==
    LET limit == IF IsNone(limit_arg) THEN DefaultLimit ELSE limit_arg[2]
        has_more == Len(data) > limit
        paginated_data == IF has_more THEN slice_to(data, limit) ELSE data
        total_count == Len(data)
    IN [data |-> paginated_data,
        pagination |-> [total |-> total_count,
                        returned |-> Len(paginated_data),
                        has_more |-> has_more],
        suggestion |-> IF has_more
                       THEN PyStr("Use pagination to retrieve remaining "
                                  \o ToString(total_count - limit) \o " items")
                       ELSE None]

\* Lists around the small limits and around the default limit, with limits
\* below, inside and above them.
PaginationArgs ==
    [kind : {"paginate"},
     data : {ListOfLength(n) : n \in (0..MaxItems)
                                     \cup ((DefaultLimit - 1)..(DefaultLimit + 2))},
     limit : {None} \cup {PyInt(l) : l \in ((0 - 2)..(MaxItems + 1))
                                           \cup {DefaultLimit}}]

\* One call of _apply_smart_pagination.
apply_smart_pagination_call ==
    /\ arg \in PaginationArgs
    /\ ret = <<>>
    /\ ret' = <<apply_smart_pagination(arg.data, arg.limit)>>
    /\ ToolFrame

-----------------------------------------------------------------------------
(* Specifications                                                          *)

CacheInit(d) ==
    /\ rc_cache = <<>>
    /\ rc_ttl = DefaultTtl
    /\ now = 0
    /\ dec = d
    /\ status = "idle"
    /\ cur = NoCall
    /\ attempt = 0
    /\ current_delay = 0
    /\ result = Ret(None)
    /\ trace = <<>>
    /\ last = NoLast
    /\ stored_by = <<>>
    /\ ncalls = 0
    /\ nreq = 0
    /\ threads = [t \in ThreadIds |-> IdleThread]

SessionInit ==
    /\ use_sse \in BOOLEAN
    /\ config_token \in ConfigTokens
    /\ self_client = 0
    /\ clients = <<>>
    /\ log = <<>>

NoSession ==
    /\ use_sse = FALSE
    /\ config_token = None
    /\ self_client = 0
    /\ clients = <<>>
    /\ log = <<>>

\* No function of the tool layer is under call.
NoArgs ==
    /\ arg = <<>>
    /\ ret = <<>>

NoKeys ==
    /\ key_in = NoKeyIn
    /\ key_out = <<>>

\* ConduitApp.get_client alone.
SessionNext == \E ua \in UserAgents, h \in Headers : get_client(ua, h)

AppInit == SessionInit /\ CacheInit(RequestDecorator) /\ NoKeys /\ NoArgs

SpecSession == AppInit /\ [][SessionNext]_vars

\* Functions decorated with cached_request on the process-wide cache.
CacheNext ==
    \/ \E r \in Requests, o \in CacheOutcomes, dur \in Durations :
           cached_call(r[1], r[2], o, dur)
    \/ tick
    \/ \E c \in ClientIds : clear_cache(c)

CacheOnlyInit == NoSession /\ CacheInit(RequestDecorator) /\ NoKeys /\ NoArgs

SpecCache == CacheOnlyInit /\ [][CacheNext]_vars

\* retry_request with drawn decorator arguments around an uncached call.
RetryInit == NoSession /\ NoKeys /\ NoArgs /\ \E d \in Decorators : CacheInit(d)

RetryNext ==
    \/ \E call \in {GetUrl1, PostUrl1} : request_begin(3, call)
    \/ \E o \in Outcomes(ncalls + 1) : request_attempt(o, 0)

SpecRetry == RetryInit /\ [][RetryNext]_vars

\* Repeated GETs of one URL by the two clients with caching enabled, as time
\* passes.
ExpiryNext ==
    \/ \E c \in {1, 2}, o \in LookupOutcomes : cached_get(c, o)
    \/ tick

SpecExpiry == CacheOnlyInit /\ [][ExpiryNext]_vars

\* Two threads of the host inside cached_request.wrapper on the shared cache.
ThreadNext ==
    \/ \E t \in ThreadIds, c \in {1, 2}, o \in ThreadOutcomes : th_request(t, c, o)
    \/ \E t \in ThreadIds : th_set_ttl(t)
    \/ \E t \in ThreadIds : th_contains(t)
    \/ \E t \in ThreadIds : th_read(t)
    \/ \E t \in ThreadIds : th_compare(t)
    \/ \E t \in ThreadIds : th_del(t)
    \/ \E t \in ThreadIds : th_call(t)
    \/ \E t \in ThreadIds : th_store(t)
    \/ \E t \in ThreadIds : th_clear(t)
    \/ tick

SpecThreads == CacheOnlyInit /\ [][ThreadNext]_vars

\* RequestCache._generate_key applied to two drawn argument tuples.
KeyInit ==
    /\ NoSession
    /\ CacheInit(RequestDecorator)
    /\ key_in \in KeyRequests \X KeyRequests
    /\ key_out = <<>>
    /\ NoArgs

KeyNext == derive_keys

SpecKey == KeyInit /\ [][KeyNext]_vars

\* The request path at rest.
RequestPathIdle == NoSession /\ CacheInit(RequestDecorator) /\ NoKeys

\* BasePhabricatorClient._make_request on one drawn HTTP exchange.
MakeRequestInit ==
    /\ RequestPathIdle
    /\ arg \in HttpReplies
    /\ ret = <<>>

MakeRequestNext == make_request_call

SpecMakeRequest == MakeRequestInit /\ [][MakeRequestNext]_vars

\* A function decorated with handle_api_errors on one drawn outcome.
HandleInit ==
    /\ RequestPathIdle
    /\ arg \in FuncOutcomes
    /\ ret = <<>>

SpecHandle == HandleInit /\ [][handle_api_errors_call]_vars

\* _apply_smart_pagination on one drawn list and limit.
PaginationInit ==
    /\ RequestPathIdle
    /\ arg \in PaginationArgs
    /\ ret = <<>>

SpecPagination == PaginationInit /\ [][apply_smart_pagination_call]_vars

\* EnhancedPhabricatorClient.request: retry_request around cached_request
\* around the HTTP call.
Init == NoSession /\ CacheInit(RequestDecorator) /\ NoKeys /\ NoArgs

Next ==
    \/ \E r \in ToolRequests : request_begin(r[1], r[2])
    \/ \E o \in Outcomes(ncalls + 1), dur \in Durations : request_attempt(o, dur)
    \/ tick
    \/ \E c \in ClientIds : clear_cache(c)

Spec == Init /\ [][Next]_vars

-----------------------------------------------------------------------------
(* Claims about ConduitApp.get_client                                      *)

Calls == 1..Len(log)
Succeeded(i) == log[i].client # 0
ValidHeader(i) == Truthy(log[i].http_token) /\ Len(log[i].http_token[2]) = TokenLength

\* C1: in SSE mode no client returned by an earlier request is returned again
\* by a later request (two requests always receive distinct instances).
C1_NoClientReuse ==
    use_sse =>
        \A i, j \in Calls :
            (i < j /\ Succeeded(i) /\ Succeeded(j)) => log[i].client # log[j].client

\* C2: in SSE mode the client returned for a request carrying a valid token is
\* bound to that request's header token.
C2_BoundToRequestToken ==
    use_sse =>
        \A j \in Calls :
            (ValidHeader(j) /\ Succeeded(j))
                => clients[log[j].client].api_token = log[j].http_token[2]

\* C3: in SSE mode every call whose request carries no token header fails with
\* 'Must provide X-PHABRICATOR-TOKEN' and returns no client.
C3_MissingHeaderFails ==
    use_sse =>
        \A j \in Calls :
            log[j].http_token = None
                => (log[j].error = ErrMustProvide /\ ~Succeeded(j))

\* C4: in both modes every call whose header token has a length other than 32
\* fails with the validation error and neither constructs nor returns a client.
C4_BadLengthFails ==
    \A j \in Calls :
        (Truthy(log[j].http_token) /\ Len(log[j].http_token[2]) # TokenLength)
            => (log[j].error = ErrHeaderLength /\ ~Succeeded(j) /\ ~log[j].constructed)

\* C5: in stdio mode, once a call has succeeded every later call returns that
\* identical client, and exactly one client is ever constructed.
C5_StdioMemoized ==
    ~use_sse =>
        /\ \A i, j \in Calls :
              (i < j /\ Succeeded(i)) => log[j].client = log[i].client
        /\ Len(clients) <= 1
        /\ (\E i \in Calls : Succeeded(i)) => Len(clients) = 1

\* Witness C5: stdio mode, a first call without header succeeded and a later
\* call carrying a different valid header token was served.
C5_Witness ==
    /\ ~use_sse
    /\ Len(log) >= 2
    /\ log[1].http_token = None
    /\ Succeeded(1)
    /\ log[2].http_token = PyStr(TokB)
    /\ Succeeded(2)

\* C6: in stdio mode the first successful call binds the client to the header
\* token when the request carries one, otherwise to the configured token, and
\* the call fails when there is neither.
C6_StdioFirstBinding ==
    ~use_sse =>
        \A j \in Calls :
            (\A i \in Calls : i < j => ~Succeeded(i)) =>
                /\ ValidHeader(j) =>
                      /\ Succeeded(j)
                      /\ clients[log[j].client].api_token = log[j].http_token[2]
                /\ (~Truthy(log[j].http_token) /\ Truthy(config_token)) =>
                      /\ Succeeded(j)
                      /\ clients[log[j].client].api_token = config_token[2]
                /\ (~Truthy(log[j].http_token) /\ ~Truthy(config_token)) =>
                      /\ ~Succeeded(j)
                      /\ log[j].error = ErrRequired

\* Witness C6: stdio mode with a configured token, a failed call, then a first
\* successful call bound to its header token rather than the configured one.
C6_Witness ==
    /\ ~use_sse
    /\ config_token = PyStr(TokC)
    /\ Len(log) >= 2
    /\ ~Succeeded(1)
    /\ log[2].http_token = PyStr(TokA)
    /\ Succeeded(2)
    /\ clients[log[2].client].api_token = TokA

-----------------------------------------------------------------------------
(* Claims about cached_request and RequestCache                            *)

Finished == status \in {"returned", "raised"} /\ cur.client # 0
CallerTtl == EnhancedClients[cur.client].cache_ttl
CallerToken == EnhancedClients[cur.client].api_token

\* The entry found under the key at lookup time, if any: <<value, timestamp>>.
HadEntry == last.entry # <<>>
EntryValue == last.entry[1][1]
EntryAge == last.at - last.entry[1][2]

\* C7: a response stored by a GET made through one client is never returned to
\* a GET made through a client constructed with a different token.
C7_NoCrossTokenHit ==
    (Finished /\ last.gate = "hit")
        => EnhancedClients[stored_by[last.key]].api_token = CallerToken

\* C8: a call whose method, upper-cased, is not GET is never served from the
\* cache and invokes the underlying call exactly once.
C8_NonGetBypasses ==
    (Finished /\ upper(str(resolve_method(cur.call))) # "GET")
        => /\ last.gate = "bypass"
           /\ last.invoked = 1
           /\ result = last.outcome
           /\ ncalls = 1

\* Witness C8: a lower-case "post" by a client with caching enabled, made
\* while the GET entry for the same URL and parameters is cached and within
\* the caller's TTL.
C8_Witness ==
    /\ Finished
    /\ cur.call = LowerPostUrl1
    /\ EnhancedClients[cur.client].enable_cache
    /\ last.gate = "bypass"
    /\ LET k == generate_key("GET", Url1, None, None, None, PyDict(<<>>))
       IN /\ k \in DOMAIN rc_cache
          /\ ~IsNone(rc_cache[k][1])
          /\ last.at - rc_cache[k][2] < CallerTtl

\* C9 as stated: within the TTL the stored value is returned without invoking
\* the underlying call; once the TTL has elapsed the underlying call is
\* invoked and the entry replaced by the new result and timestamp.
C9_TtlExpiryAsStated ==
    (Finished /\ last.gate \in {"hit", "miss"} /\ HadEntry) =>
        /\ EntryAge < CallerTtl =>
              /\ last.invoked = 0
              /\ result = Ret(EntryValue)
        /\ EntryAge >= CallerTtl =>
              /\ last.invoked = 1
              /\ result.kind = "return" =>
                    /\ last.key \in DOMAIN rc_cache
                    /\ rc_cache[last.key] = <<result.value, last.t_end>>

\* C9 amended: as stated, for stored values other than None.
C9_TtlExpiry ==
    (Finished /\ last.gate \in {"hit", "miss"} /\ HadEntry) =>
        /\ (EntryAge < CallerTtl /\ ~IsNone(EntryValue)) =>
              /\ last.gate = "hit"
              /\ last.invoked = 0
              /\ ncalls = 0
              /\ result = Ret(EntryValue)
              /\ rc_cache[last.key] = last.entry[1]
        /\ EntryAge >= CallerTtl =>
              /\ last.gate = "miss"
              /\ last.invoked = 1
              /\ result = last.outcome
              /\ result.kind = "return" =>
                    /\ last.key \in DOMAIN rc_cache
                    /\ rc_cache[last.key] = <<result.value, last.t_end>>
              /\ result.kind = "raise" => last.key \notin DOMAIN rc_cache

\* Witness C9: a lookup found an entry whose TTL had elapsed, the underlying
\* call took time and returned another value, which replaced the entry.
C9_Witness ==
    /\ Finished
    /\ last.gate = "miss"
    /\ HadEntry
    /\ ~IsNone(EntryValue)
    /\ EntryAge >= CallerTtl
    /\ result.kind = "return"
    /\ result.value # EntryValue
    /\ last.t_end > last.at
    /\ rc_cache[last.key] = <<result.value, last.t_end>>

-----------------------------------------------------------------------------
(* Claims about retry_request                                              *)

Attempts == {i \in 1..Len(trace) : trace[i].ev = "call"}
AllTransient == \A i \in Attempts : trace[i].res = "transient"

\* C10: a call whose function raises a transient error on every attempt
\* invokes it exactly max_retries + 1 times and then raises the exception of
\* the last attempt.
C10_RetryBound ==
    /\ (status = "running" /\ AllTransient) => Cardinality(Attempts) <= dec.max_retries
    /\ (status = "raised" /\ AllTransient) =>
          /\ Cardinality(Attempts) = dec.max_retries + 1
          /\ ncalls = dec.max_retries + 1
          /\ result = last.outcome
          /\ result.kind = "raise"
          /\ result.exc.type \in TransientTypes
          /\ result.exc.id = dec.max_retries + 1

\* Witness C10: with max_retries = 2, three transient failures, then raised.
C10_Witness ==
    /\ status = "raised"
    /\ AllTransient
    /\ dec.max_retries = 2
    /\ Cardinality(Attempts) = 3
    /\ result.exc.type = "NetworkError"

\* C11: an attempt that raises an exception other than the three caught
\* classes is the last event of the call: the call raises that exception at
\* once, with no sleep and no further attempt, whichever attempt it is.
C11_NonTransientPropagates ==
    \A i \in Attempts :
        trace[i].res = "other" =>
            /\ i = Len(trace)
            /\ status = "raised"
            /\ result = last.outcome
            /\ result.kind = "raise"
            /\ result.exc.type \notin TransientTypes
            /\ result.exc.id = ncalls
            /\ now = last.t_end

\* Witness C11: a transient failure, a sleep, then a non-transient failure on
\* the second of four allowed attempts.
C11_Witness ==
    /\ status = "raised"
    /\ dec.max_retries = 3
    /\ Len(trace) = 3
    /\ trace[1].res = "transient"
    /\ trace[2].ev = "sleep"
    /\ trace[3].res = "other"
    /\ result.exc.type = "JSONDecodeError"
    /\ result.exc.id = 2

Sleeps == {i \in 1..Len(trace) : trace[i].ev = "sleep"}

RECURSIVE Pow(_, _)
Pow(b, k) == IF k = 0 THEN 1 ELSE b * Pow(b, k - 1)

\* C12: attempts and sleeps alternate, a sleep follows every failed transient
\* attempt except the last, the k-th sleep (k = 0..) lasts
\* retry_delay * retry_backoff^k, an always-failing call sleeps exactly
\* max_retries times, no sleep follows the final attempt, and the delay of
\* every invocation starts again at retry_delay.
C12_BackoffSchedule ==
    /\ \A i \in 1..Len(trace) :
          trace[i].ev = (IF i % 2 = 1 THEN "call" ELSE "sleep")
    /\ \A i \in Sleeps :
          /\ trace[i].d = dec.retry_delay * Pow(dec.retry_backoff, (i \div 2) - 1)
          /\ trace[i - 1].res = "transient"
          /\ i = Len(trace) => status = "running"
    /\ (status \in {"returned", "raised"}) => trace[Len(trace)].ev = "call"
    /\ Cardinality(Sleeps) <= dec.max_retries
    /\ (status = "raised" /\ AllTransient) => Cardinality(Sleeps) = dec.max_retries
    /\ status = "running" =>
          current_delay = dec.retry_delay * Pow(dec.retry_backoff, Cardinality(Sleeps))

\* Witness C12: the second invocation of a call decorated with
\* retry_request(2, 2, 2), after a first invocation that slept, fails three
\* times and sleeps 2 then 4.
C12_Witness ==
    /\ nreq = 2
    /\ dec = [max_retries |-> 2, retry_delay |-> 2, retry_backoff |-> 2]
    /\ status = "raised"
    /\ AllTransient
    /\ Len(trace) = 5
    /\ trace[2].d = 2
    /\ trace[4].d = 4
    /\ now = 8

-----------------------------------------------------------------------------
(* Claims about EnhancedPhabricatorClient.request                          *)

\* The call in progress is a GET with a URL by a client with caching enabled.
Cacheable ==
    /\ cur.client # 0
    /\ EnhancedClients[cur.client].enable_cache
    /\ upper(str(resolve_method(cur.call))) = "GET"
    /\ ~IsNone(resolve_url(cur.call))

\* C13: request is retry(cache(call)): every attempt of a cacheable GET goes
\* through the cache lookup; a hit ends the call at once with the cached value,
\* no underlying call and no sleep; a miss invokes the underlying call once
\* in that attempt, and a transient failure of it is retried after a sleep.
C13_RetryAroundCache ==
    (Cacheable /\ Attempts # {}) =>
        /\ last.gate \in {"hit", "miss"}
        /\ last.gate = "hit" =>
              /\ status = "returned"
              /\ last.invoked = 0
              /\ ncalls = Cardinality(Attempts) - 1
              /\ result = Ret(EntryValue)
              /\ EntryAge < CallerTtl
              /\ now = last.at
              /\ trace[Len(trace)].ev = "call"
        /\ last.gate = "miss" =>
              /\ last.invoked = 1
              /\ ncalls = Cardinality(Attempts)
              /\ status = "running" =>
                    /\ outcome_class(last.outcome) = "transient"
                    /\ trace[Len(trace)].ev = "sleep"
                    /\ now = last.t_end + trace[Len(trace)].d
              /\ status # "running" => result = last.outcome

\* Witness C13: a cacheable GET missed, failed transiently, slept, and its
\* second attempt looked the key up again at the later time, invoked the
\* underlying call and stored the response.
C13_Witness ==
    /\ Cacheable
    /\ status = "returned"
    /\ Cardinality(Attempts) = 2
    /\ last.gate = "miss"
    /\ last.at > 0
    /\ ncalls = 2
    /\ last.key \in DOMAIN rc_cache
    /\ rc_cache[last.key] = <<result.value, last.t_end>>

\* C14: a request on a client constructed with max_retries = N, retry_delay = d
\* and retry_backoff = b makes at most N + 1 attempts for an always-transient
\* failure and sleeps d * b^k before attempt k + 2.
C14_InstanceRetryOverrides ==
    LET config == EnhancedClients[cur.client]
    IN (cur.client # 0) =>
          /\ Cardinality(Attempts) <= config.max_retries + 1
          /\ \A i \in Sleeps :
                trace[i].d = config.retry_delay * Pow(config.retry_backoff, (i \div 2) - 1)

-----------------------------------------------------------------------------
(* Claims about threads sharing the cache                                  *)

\* C15: every lookup judges the entry valid exactly when its age is below the
\* cache_ttl of the client that makes the lookup.
C15_CallerTtlJudgesExpiry ==
    \A t \in ThreadIds :
        threads[t].judged # <<>> =>
            (threads[t].judged[1].valid
                <=> threads[t].judged[1].age
                        < EnhancedClients[threads[t].client].cache_ttl)

\* C16: no operation of a thread on the shared cache fails with a missing-key
\* error, and the map holds at most one complete <<value, timestamp>> pair
\* for the key.
C16_NoKeyError ==
    /\ \A t \in ThreadIds : threads[t].res # <<KeyError>>
    /\ \A k \in DOMAIN rc_cache : Len(rc_cache[k]) = 2

-----------------------------------------------------------------------------
(* Further claims about cached_request and RequestCache                    *)

\* C17: a call through cached_request by a client whose config has
\* enable_cache false, or whose method or URL is None, invokes the underlying
\* call exactly once, passes its outcome on, and leaves the cache map and the
\* cache's ttl field as they were, whatever the map holds.
C17_DisabledCacheFrame ==
    [][ (/\ nreq' = nreq + 1
         /\ \/ ~EnhancedClients[cur'.client].enable_cache
            \/ IsNone(resolve_method(cur'.call))
            \/ IsNone(resolve_url(cur'.call)))
        => /\ rc_cache' = rc_cache
           /\ rc_ttl' = rc_ttl
           /\ ncalls' = 1
           /\ last'.gate = "bypass"
           /\ result' = last'.outcome ]_vars

\* Witness C17: a GET by the client with caching disabled, made while the
\* entry for the same request is cached and fresh and the ttl field holds
\* another client's value.
C17_Witness ==
    /\ Finished
    /\ cur.client = 3
    /\ cur.call = GetUrl1
    /\ last.gate = "bypass"
    /\ rc_ttl = 1
    /\ LET k == generate_key("GET", Url1, None, None, None, PyDict(<<>>))
       IN /\ k \in DOMAIN rc_cache
          /\ ~IsNone(rc_cache[k][1])
          /\ last.at - rc_cache[k][2] < EnhancedClients[3].cache_ttl

-----------------------------------------------------------------------------
(* Claims about RequestCache._generate_key                                 *)

RECURSIVE PyEq(_, _)

\* Python equality of two values; dicts compare without regard to order.
PyEq(a, b) ==
    /\ a[1] = b[1]
    /\ CASE IsNone(a) -> TRUE
         [] IsDict(a) ->
              /\ Len(a[2]) = Len(b[2])
              /\ \A i \in 1..Len(a[2]) : \E j \in 1..Len(b[2]) :
                    /\ a[2][i][1] = b[2][j][1]
                    /\ PyEq(a[2][i][2], b[2][j][2])
         [] OTHER -> a[2] = b[2]

\* The two requests have the same method up to case, the same URL and equal
\* params, data, JSON payload and extra options.
SameRequest(r1, r2) ==
    /\ upper(r1.method) = upper(r2.method)
    /\ r1.url = r2.url
    /\ PyEq(r1.params, r2.params)
    /\ PyEq(r1.data, r2.data)
    /\ PyEq(r1.json_payload, r2.json_payload)
    /\ PyEq(r1.extra, r2.extra)

\* C18: two calls whose method (up to case), URL, params, data, JSON payload
\* and extra options are equal get the identical key, whatever the insertion
\* order of the keys of their mappings.
C18_KeyStability ==
    (key_out # <<>> /\ SameRequest(key_in[1], key_in[2]))
        => key_out[1] = key_out[2]

\* C19: two requests that differ in method, URL or any parameter value are
\* hashed from different strings and get different keys.
C19_KeySensitivity ==
    (key_out # <<>> /\ ~SameRequest(key_in[1], key_in[2]))
        => key_out[1] # key_out[2]

-----------------------------------------------------------------------------
(* Claims about failures under cached_request                              *)

\* C20: when the underlying call raises after a miss or after the lookup of
\* an expired entry, the call raises that exception and the map holds no
\* entry stored by it (an expired entry is gone, an unexpired one is left as
\* it was); a value is served from the cache only while its entry's age is
\* below the caller's TTL.
C20_FailureNotCached ==
    /\ (Finished /\ last.gate = "miss" /\ last.outcome.kind = "raise") =>
          /\ status = "raised"
          /\ result = last.outcome
          /\ IF HadEntry /\ EntryAge < CallerTtl
             THEN last.key \in DOMAIN rc_cache /\ rc_cache[last.key] = last.entry[1]
             ELSE last.key \notin DOMAIN rc_cache
    /\ (Finished /\ last.gate = "hit") =>
          /\ HadEntry
          /\ EntryAge < CallerTtl
          /\ result = Ret(EntryValue)

\* Witness C20: the lookup found a successful response whose TTL had elapsed,
\* the underlying call raised, the call raised and the key has no entry.
C20_Witness ==
    /\ Finished
    /\ last.gate = "miss"
    /\ HadEntry
    /\ ~IsNone(EntryValue)
    /\ EntryAge >= CallerTtl
    /\ status = "raised"
    /\ result.kind = "raise"
    /\ last.key \notin DOMAIN rc_cache

-----------------------------------------------------------------------------
(* Claims about the lifetime of cache entries                              *)

\* The step is a call through cached_request that looked key k up.
LookedUp(k) == nreq' = nreq + 1 /\ last'.gate \in {"hit", "miss"} /\ last'.key = k

\* C21: an entry leaves the map only by a lookup of its own key that finds it
\* expired or by clear; an entry changes only by a store under its own key;
\* the passing of time alone removes nothing.
C21_EntryLifetime ==
    [][ /\ \A k \in DOMAIN rc_cache :
              /\ k \notin DOMAIN rc_cache' =>
                    \/ /\ LookedUp(k)
                       /\ last'.at - rc_cache[k][2] >= last'.ttl
                    \/ /\ nreq' = nreq
                       /\ now' = now
                       /\ rc_cache' = <<>>
              /\ (k \in DOMAIN rc_cache' /\ rc_cache'[k] # rc_cache[k]) =>
                    /\ LookedUp(k)
                    /\ last'.gate = "miss"
                    /\ last'.outcome.kind = "return"
        /\ now' # now /\ nreq' = nreq => rc_cache' = rc_cache ]_vars

\* Witness C21: an entry older than every client's TTL is still in the map
\* after time passed and a call stored a response under another key.
C21_Witness ==
    LET k1 == generate_key("GET", Url1, None, None, None, PyDict(<<>>))
        k2 == generate_key("GET", Url2, None, None, None, PyDict(<<>>))
    IN /\ Finished
       /\ last.key = k2
       /\ last.gate = "miss"
       /\ k2 \in DOMAIN rc_cache
       /\ k1 \in DOMAIN rc_cache
       /\ \A c \in ClientIds : now - rc_cache[k1][2] >= EnhancedClients[c].cache_ttl

-----------------------------------------------------------------------------
(* Further claims about retry_request                                      *)

\* C27: the first attempt that returns ends the call: it is the last event,
\* the call returns its result, every earlier attempt failed transiently and
\* was followed by one sleep, so k invocations go with k - 1 sleeps and
\* k <= max_retries + 1; with max_retries = 0 there is one attempt, no sleep.
C27_ReturnsFirstSuccess ==
    /\ \A i \in Attempts :
          trace[i].res = "return" => (i = Len(trace) /\ status = "returned")
    /\ status = "returned" =>
          /\ trace[Len(trace)].res = "return"
          /\ result = last.outcome
          /\ result.kind = "return"
          /\ \A i \in Attempts : i < Len(trace) => trace[i].res = "transient"
          /\ ncalls = Cardinality(Attempts)
          /\ Cardinality(Sleeps) = Cardinality(Attempts) - 1
          /\ Cardinality(Attempts) <= dec.max_retries + 1
    /\ dec.max_retries = 0 => Len(trace) <= 1

\* Witness C27: with max_retries = 3, three transient failures and then a
\* response on the fourth, last allowed attempt.
C27_Witness ==
    /\ status = "returned"
    /\ dec.max_retries = 3
    /\ Cardinality(Attempts) = 4
    /\ Cardinality(Sleeps) = 3
    /\ ncalls = 4
    /\ ~IsNone(result.value)

-----------------------------------------------------------------------------
(* Claims about None results and about expiry                              *)

\* C28: a None result of a cacheable GET is stored, but a lookup that finds a
\* stored None, also within the TTL, is a miss that invokes the underlying
\* call again; no hit ever returns None.
C28_NoneNeverServed ==
    /\ (Finished /\ last.gate = "miss" /\ last.outcome = Ret(None)) =>
          /\ last.key \in DOMAIN rc_cache
          /\ rc_cache[last.key] = <<None, last.t_end>>
    /\ (Finished /\ last.gate \in {"hit", "miss"} /\ HadEntry /\ IsNone(EntryValue)) =>
          /\ last.gate = "miss"
          /\ last.invoked = 1
          /\ ncalls = 1
          /\ result = last.outcome
    /\ (Finished /\ last.gate = "hit") => ~IsNone(result.value)

\* Witness C28: a GET found a None stored under its key, younger than the
\* caller's TTL, and invoked the underlying call, which returned None again.
C28_Witness ==
    /\ Finished
    /\ last.gate = "miss"
    /\ HadEntry
    /\ IsNone(EntryValue)
    /\ EntryAge < CallerTtl
    /\ last.invoked = 1
    /\ result = Ret(None)
    /\ rc_cache[last.key] = <<None, last.t_end>>

\* C29: a hit leaves the entry's value and timestamp as they were, so an entry
\* stored at time t is served exactly to the lookups whose caller's TTL
\* exceeds now - t, whatever hits came before, and a lookup made when
\* now - t has reached the caller's TTL invokes the underlying call.
C29_ExpiryNotSliding ==
    (Finished /\ HadEntry) =>
        /\ last.gate = "hit" <=> EntryAge < CallerTtl
        /\ last.gate = "hit" =>
              /\ rc_cache[last.key] = last.entry[1]
              /\ last.invoked = 0
              /\ result = Ret(EntryValue)
        /\ EntryAge >= CallerTtl =>
              /\ last.gate = "miss"
              /\ last.invoked = 1
              /\ result = last.outcome

\* Witness C29: the third GET, at time 2, found the entry stored at time 0 by
\* the first; the second GET was a hit on it; the caller's TTL of 2 has
\* elapsed since the store and the underlying call was invoked.
C29_Witness ==
    /\ Finished
    /\ nreq = 3
    /\ HadEntry
    /\ last.entry[1][2] = 0
    /\ last.at = 2
    /\ CallerTtl = 2
    /\ last.gate = "miss"
    /\ last.invoked = 1

-----------------------------------------------------------------------------
(* Claims about failed get_client calls                                    *)

Failed(i) == log[i].error # NoError

\* C30: a get_client call that raises returns no client and constructs none;
\* while every call so far has failed, no client is memoized or constructed;
\* and the first request with a valid header token after such failures
\* succeeds with a new client bound to its own token.
C30_FailureLeavesNoClient ==
    /\ \A j \in Calls : Failed(j) => (log[j].client = 0 /\ ~log[j].constructed)
    /\ (\A i \in Calls : Failed(i)) => (self_client = 0 /\ clients = <<>>)
    /\ \A j \in Calls :
          ((\A i \in Calls : i < j => Failed(i)) /\ ValidHeader(j)) =>
              /\ ~Failed(j)
              /\ log[j].constructed
              /\ log[j].client = 1
              /\ clients[1].api_token = log[j].http_token[2]

\* Witness C30: in SSE mode a request without token and a request with a short
\* token failed, then a request with a valid token got a client bound to it.
C30_Witness ==
    /\ use_sse
    /\ Len(log) = 3
    /\ log[1].http_token = None
    /\ log[1].error = ErrMustProvide
    /\ log[2].http_token = PyStr(TokShort)
    /\ log[2].error = ErrHeaderLength
    /\ log[3].http_token = PyStr(TokB)
    /\ log[3].client = 1
    /\ self_client = 1
    /\ clients[1].api_token = TokB

-----------------------------------------------------------------------------
(* Claims about get_stats                                                  *)

\* C25: get_stats of a client constructed at any moment reports cache_size 0,
\* whatever the other clients did before; and right after clear_cache every
\* client's get_stats reports cache_size 0.
C25_NewClientCacheEmpty ==
    /\ get_stats(NewClientConfig).cache_size = 0
    /\ \A c \in ClientIds :
          (status = "idle" /\ rc_cache = <<>>) => get_stats(EnhancedClients[c]).cache_size = 0

-----------------------------------------------------------------------------
(* Claims about _make_request                                              *)

\* The payload has an error_code that is not empty.
HasErrorCode(items) ==
    \E j \in 1..Len(items) : items[j][1] = "error_code" /\ Truthy(items[j][2])

\* C22: for a payload with a non-empty error_code _make_request raises
\* PhabricatorAPIError carrying the payload's error_code and error_info as
\* they are, returns nothing and has sent one HTTP request; for any other
\* payload it returns the payload's result (an empty dict when there is
\* none), also after one request; process_api_response does the same.
C22_RemoteErrorPropagates ==
    (ret # <<>> /\ arg.kind = "json") =>
        LET items == arg.data[2]
            r == ret[1]
        IN /\ r.posts = 1
           /\ r.outcome = process_api_response(arg.data)
           /\ IF HasErrorCode(items)
              THEN /\ r.outcome.kind = "raise"
                   /\ r.outcome.exc.type = "PhabricatorAPIError"
                   /\ r.outcome.exc.error_code = dict_get(items, "error_code", None)
                   /\ r.outcome.exc.error_info = dict_get(items, "error_info", None)
                   /\ IsNone(r.outcome.value)
              ELSE /\ r.outcome.kind = "return"
                   /\ r.outcome.value = dict_get(items, "result", PyDict(<<>>))

\* Witness C22: a payload with error_code, error_info and a result; the call
\* raised with that code and message and returned no result.
C22_Witness ==
    /\ ret # <<>>
    /\ arg.kind = "json"
    /\ arg.data = PyDict(<< <<"error_code", PyStr("ERR-INVALID-AUTH")>>,
                            <<"error_info", PyStr("Session key is not present.")>>,
                            <<"result", PyDict(<< <<"a", PyInt(1)>> >>)>> >>)
    /\ ret[1].outcome.kind = "raise"
    /\ ret[1].outcome.exc.error_code = PyStr("ERR-INVALID-AUTH")
    /\ ret[1].outcome.exc.error_info = PyStr("Session key is not present.")

-----------------------------------------------------------------------------
(* Claims about handle_api_errors                                          *)

-----------------------------------------------------------------------------
(* Claims about _apply_smart_pagination                                    *)

\* C26: the result holds the first min(len(data), limit) items of data in
\* their order, total is len(data), returned is the number of items in the
\* result, has_more is true exactly when len(data) > limit, the suggestion
\* is None exactly when has_more is false, and a missing limit means 100.
C26_FirstLimitItems ==
    ret # <<>> =>
        LET r == ret[1]
            limit == IF IsNone(arg.limit) THEN 100 ELSE arg.limit[2]
            smaller == IF Len(arg.data) < limit THEN Len(arg.data) ELSE limit
        IN /\ r.data = SubSeq(arg.data, 1, smaller)
           /\ r.pagination.total = Len(arg.data)
           /\ r.pagination.returned = Len(r.data)
           /\ r.pagination.has_more = (Len(arg.data) > limit)
           /\ IsNone(r.suggestion) = ~r.pagination.has_more

-----------------------------------------------------------------------------
(* Claims about the user-agent filter                                      *)

\* C23: with CONDUIT_USER_AGENT_FILTER set and SSE mode on, a request with a
\* valid 32-character token gets a client when its user-agent matches the
\* filter and fails with 'Access denied' when it does not, also after an
\* accepted request; in stdio mode the user-agent decides nothing.
C23_UserAgentFilter ==
    LET UserAgentFilter == "approved-client"
        MatchesFilter(user_agent) ==
            /\ Len(user_agent) >= Len(UserAgentFilter)
            /\ SubSeq(user_agent, 1, Len(UserAgentFilter)) = UserAgentFilter
    IN \A j \in Calls :
        /\ (use_sse /\ ValidHeader(j) /\ MatchesFilter(log[j].user_agent))
              => (~Failed(j) /\ log[j].client # 0)
        /\ (use_sse /\ ValidHeader(j) /\ ~MatchesFilter(log[j].user_agent))
              => (log[j].error = "Access denied" /\ log[j].client = 0)
        /\ (~use_sse /\ ValidHeader(j)) => ~Failed(j)
====
